---- MODULE Spec2Model ----
(***************************************************************************)
(* Beggar-my-neighbour: the driver loop of main and the penalty phase of   *)
(* process_penalty_phase (src/src/main.rs), as a state machine.            *)
(*                                                                         *)
(* A state is one program point of the run: the top of main's loop         *)
(* ("turn"), the head of the payment loop of process_penalty_phase         *)
(* ("penalty"), the end-of-turn check of main ("check"), or the point      *)
(* after the loop ("done").  The program plays one shuffled standard deck; *)
(* the model plays every ordered deal of at most MaxCards distinct cards   *)
(* of the sub-deck DeckCards (Spec), every deal of at most MaxFullCards of  *)
(* the 52 cards (FullDeckSpec), and the loop started from every position   *)
(* of at most MaxPositionCards cards (PositionSpec).                       *)
(***************************************************************************)
EXTENDS Integers, Sequences, FiniteSets, Bags, TLC

VARIABLES
    starting_deck,          \* main: the shuffled deck before the split
    initial_decks,          \* main: the two decks as dealt
    decks,                  \* main: decks[0], decks[1], front of the queue first
    central_pile,           \* main: the shared pile, in play order
    current_player,         \* main: the player on turn
    turn_count,             \* main: the turn counter
    winner,                 \* main: the loop's result, None until it breaks
    pc,                     \* the program point
    pp_current_player,      \* process_penalty_phase: current_player (the payer)
    required,               \* process_penalty_phase: required
    last_penalty_initiator, \* process_penalty_phase: last_penalty_initiator
    paid,                   \* process_penalty_phase: paid
    log,                    \* the events handed to the logging module, in order
    broke_at,               \* which break ended main's loop, "none" while it runs
    seen                    \* the configurations met so far at the top of main's loop

vars == <<starting_deck, initial_decks, decks, central_pile, current_player,
          turn_count, winner, pc, pp_current_player, required,
          last_penalty_initiator, paid, log, broke_at, seen>>

-----------------------------------------------------------------------------
(* Bounds of the model *)

\* Longest deal played (the program deals 52 cards).
MaxCards == 6

\* Ordinary plays after which a run is cut off (only a run that repeats gets there).
MaxTurns == 8

\* Longest deal played with all 52 cards of create_deck to draw from.
MaxFullCards == 2

\* Most cards in a position the loop of main is started from.
MaxPositionCards == 3

-----------------------------------------------------------------------------
(* Types *)

\* Option<T>: None and Some(x)
None == <<>>
Some(x) == <<x>>

Rank == {"Two", "Three", "Four", "Five", "Six", "Seven", "Eight", "Nine", "Ten",
         "Jack", "Queen", "King", "Ace"}

Suit == {"Spade", "Heart", "Club", "Diamond"}

Card == [rank : Rank, suit : Suit]

Player == {"One", "Two"}

\* A faulty variant: the Ace arm is missing.
penalty_value_NoAce(rank) ==
    CASE rank = "Jack" -> Some(1)
      [] rank = "Queen" -> Some(2)
      [] rank = "King" -> Some(3)
      [] OTHER -> None

\* Rank::penalty_value
penalty_value(rank) ==
    CASE rank = "Jack" -> Some(1)
      [] rank = "Queen" -> Some(2)
      [] rank = "King" -> Some(3)
      [] rank = "Ace" -> Some(4)
      [] OTHER -> None

\* Player::other
other(p) == IF p = "One" THEN "Two" ELSE "One"

\* create_deck: the 52 cards, suit by suit, each suit in rank order
ranks == <<"Two", "Three", "Four", "Five", "Six", "Seven", "Eight", "Nine", "Ten",
           "Jack", "Queen", "King", "Ace">>
suits == <<"Spade", "Heart", "Club", "Diamond">>
create_deck ==
    [i \in 1..(Len(suits) * Len(ranks)) |->
        [rank |-> ranks[((i - 1) % Len(ranks)) + 1],
         suit |-> suits[((i - 1) \div Len(ranks)) + 1]]]

-----------------------------------------------------------------------------
(* The deals of the model *)

Range(s) == {s[i] : i \in 1..Len(s)}

\* The cards the model plays with: a sub-deck of create_deck.
DeckCards ==
    {c \in Range(create_deck) :
        \/ c.rank \in {"Two", "Three"} /\ c.suit \in {"Spade", "Heart"}
        \/ c.rank = "Jack" /\ c.suit \in {"Spade", "Heart"}
        \/ c.rank \in {"Queen", "King"} /\ c.suit = "Spade"}

\* No card occurs twice in s.
Injective(s) == \A i, j \in 1..Len(s) : i # j => s[i] # s[j]

\* deck.shuffle: every order of every n cards of the sub-deck
Deals(n) == {s \in [1..n -> DeckCards] : Injective(s)}

\* A faulty variant: the split point is rounded up.
split_point_Ceil(deck) == (Len(deck) + 1) \div 2

\* main: split_point and the two drains
split_point(deck) == Len(deck) \div 2
SplitDeck(deck) ==
    [p \in Player |->
        IF p = "One" THEN SubSeq(deck, 1, split_point(deck))
        ELSE SubSeq(deck, split_point(deck) + 1, Len(deck))]

-----------------------------------------------------------------------------
(* Logging events *)

EvGameStart == <<"game_start">>
EvPenaltyStart(req) == <<"penalty_start", req>>
EvCardPlayed(p, card) == <<"card_played", p, card>>
EvCardsCollected(p, cards) == <<"cards_collected", p, cards>>

\* The configuration the loop of main runs on.
Config == [decks |-> decks, central_pile |-> central_pile,
           current_player |-> current_player]

-----------------------------------------------------------------------------
Init ==
    \E n \in 0..MaxCards : \E deck \in Deals(n) :
        /\ starting_deck = deck
        /\ decks = SplitDeck(deck)
        /\ initial_decks = SplitDeck(deck)
        /\ turn_count = 0
        /\ current_player = "One"
        /\ central_pile = <<>>
        /\ winner = None
        /\ pc = "turn"
        /\ pp_current_player = "One"
        /\ required = 0
        /\ last_penalty_initiator = "One"
        /\ paid = 0
        /\ log = <<EvGameStart>>
        /\ broke_at = "none"
        /\ seen = {}

-----------------------------------------------------------------------------
(* main: one pass of the loop, up to the end-of-turn check *)

\* A faulty variant: the loop breaks with the player whose deck is empty.
EmptyTurnWinner_Self == current_player

\* The winner the loop breaks with when the current player's deck is empty.
EmptyTurnWinner == other(current_player)

\* The current player's deck is empty at the top of the loop: the loop breaks.
TurnEmpty ==
    /\ pc = "turn"
    /\ decks[current_player] = <<>>
    /\ winner' = Some(EmptyTurnWinner)
    /\ pc' = "done"
    /\ broke_at' = "turn"
    /\ seen' = seen \cup {Config}
    /\ log' = log
    /\ UNCHANGED <<starting_deck, initial_decks, decks, central_pile,
                   current_player, turn_count, pp_current_player, required,
                   last_penalty_initiator, paid>>

\* A faulty variant: the card is taken from the back of the deck.
PopFront_Back(p) == [decks EXCEPT ![p] = SubSeq(decks[p], 1, Len(decks[p]) - 1)]

\* A faulty variant: the front card is read and left in the deck.
PopFront_Peek(p) == decks

\* The decks after player p has played the front card of their deck.
PopFront(p) == [decks EXCEPT ![p] = Tail(decks[p])]

\* A faulty variant: the played card is put under the pile.
Pushed_Front(card) == <<card>> \o central_pile

\* The pile after central_pile.push(card)
Pushed(card) == Append(central_pile, card)

\* The played card has no penalty value: the turn passes to the other player.
PlayOrdinary(card) ==
    /\ turn_count < MaxTurns
    /\ decks' = PopFront(current_player)
    /\ central_pile' = Pushed(card)
    /\ log' = Append(log, EvCardPlayed(current_player, card))
    /\ current_player' = other(current_player)
    /\ turn_count' = turn_count + 1
    /\ pc' = "check"
    /\ UNCHANGED <<pp_current_player, required, last_penalty_initiator, paid>>

\* A faulty variant: a triggering card counts as a turn too.
PlayTrigger_Counts(card, penalty) ==
    /\ decks' = PopFront(current_player)
    /\ central_pile' = Pushed(card)
    /\ log' = log \o <<EvCardPlayed(current_player, card), EvPenaltyStart(penalty)>>
    /\ pp_current_player' = other(current_player)
    /\ required' = penalty
    /\ last_penalty_initiator' = current_player
    /\ paid' = 0
    /\ pc' = "penalty"
    /\ turn_count' = turn_count + 1
    /\ UNCHANGED current_player

\* The played card has penalty value `penalty`: process_penalty_phase is entered.
PlayTrigger(card, penalty) ==
    /\ decks' = PopFront(current_player)
    /\ central_pile' = Pushed(card)
    /\ log' = log \o <<EvCardPlayed(current_player, card), EvPenaltyStart(penalty)>>
    /\ pp_current_player' = other(current_player)
    /\ required' = penalty
    /\ last_penalty_initiator' = current_player
    /\ paid' = 0
    /\ pc' = "penalty"
    /\ UNCHANGED <<current_player, turn_count>>

\* The current player plays the front card of their deck.
TurnPlay ==
    /\ pc = "turn"
    /\ decks[current_player] # <<>>
    /\ LET card == Head(decks[current_player])
           pv == penalty_value(card.rank)
       IN  IF pv # None THEN PlayTrigger(card, pv[1]) ELSE PlayOrdinary(card)
    /\ seen' = seen \cup {Config}
    /\ UNCHANGED <<starting_deck, initial_decks, winner, broke_at>>

-----------------------------------------------------------------------------
(* process_penalty_phase: one pass of the payment loop *)

\* A faulty variant: the phase returns the player who could not pay.
DepletedWinner_Payer == pp_current_player

\* The winner the phase returns when the payer has no card left.
DepletedWinner == other(pp_current_player)

\* The payer has no card left: the phase returns the other player as winner,
\* and main's loop breaks with it.
PenaltyDepleted ==
    /\ pc = "penalty"
    /\ paid < required
    /\ decks[pp_current_player] = <<>>
    /\ winner' = Some(DepletedWinner)
    /\ pc' = "done"
    /\ broke_at' = "penalty"
    /\ UNCHANGED <<starting_deck, initial_decks, decks, central_pile,
                   current_player, turn_count, pp_current_player, required,
                   last_penalty_initiator, paid, log, seen>>

\* A faulty variant: the escalation keeps the count of cards already paid.
Escalate_KeepsPaid(card, new_penalty) ==
    /\ log' = log \o <<EvCardPlayed(pp_current_player, card),
                       EvPenaltyStart(new_penalty)>>
    /\ last_penalty_initiator' = pp_current_player
    /\ required' = new_penalty
    /\ pp_current_player' = other(pp_current_player)
    /\ paid' = paid

\* A faulty variant: the escalation does not record the new initiator.
Escalate_KeepsInitiator(card, new_penalty) ==
    /\ log' = log \o <<EvCardPlayed(pp_current_player, card),
                       EvPenaltyStart(new_penalty)>>
    /\ last_penalty_initiator' = last_penalty_initiator
    /\ required' = new_penalty
    /\ pp_current_player' = other(pp_current_player)
    /\ paid' = 0

\* The payment card has penalty value new_penalty: the roles flip.
Escalate(card, new_penalty) ==
    /\ log' = log \o <<EvCardPlayed(pp_current_player, card),
                       EvPenaltyStart(new_penalty)>>
    /\ last_penalty_initiator' = pp_current_player
    /\ required' = new_penalty
    /\ pp_current_player' = other(pp_current_player)
    /\ paid' = 0

\* The payment card has no penalty value: it counts towards the payment.
Pay(card) ==
    /\ log' = Append(log, EvCardPlayed(pp_current_player, card))
    /\ paid' = paid + 1
    /\ UNCHANGED <<last_penalty_initiator, required, pp_current_player>>

\* The payer plays the front card of their deck.
PenaltyPlay ==
    /\ pc = "penalty"
    /\ paid < required
    /\ decks[pp_current_player] # <<>>
    /\ LET card == Head(decks[pp_current_player])
           pv == penalty_value(card.rank)
       IN  /\ decks' = PopFront(pp_current_player)
           /\ central_pile' = Pushed(card)
           /\ IF pv # None THEN Escalate(card, pv[1]) ELSE Pay(card)
    /\ UNCHANGED <<starting_deck, initial_decks, current_player, turn_count,
                   winner, pc, broke_at, seen>>

\* A faulty variant: the pile goes to the other player, in front of their cards.
Collected_ToPayer(p) ==
    [decks EXCEPT ![other(p)] = central_pile \o decks[other(p)]]

\* A faulty variant: the pile is drained and its cards are given to nobody.
Collected_Dropped(p) == decks

\* The decks after the pile has been moved to the back of player p's deck.
Collected(p) == [decks EXCEPT ![p] = decks[p] \o central_pile]

\* A faulty variant: the pile is copied to the collector and not drained.
Drained_NotCleared == central_pile

\* The pile after central_pile.drain(..)
Drained == <<>>

\* A faulty variant: the player who collected the pile plays next.
Collect_CollectorLeads ==
    /\ pc = "penalty"
    /\ ~(paid < required)
    /\ paid = required
    /\ log' = Append(log, EvCardsCollected(last_penalty_initiator, central_pile))
    /\ decks' = Collected(last_penalty_initiator)
    /\ central_pile' = Drained
    /\ pc' = "check"
    /\ current_player' = last_penalty_initiator
    /\ UNCHANGED <<starting_deck, initial_decks, turn_count,
                   winner, pp_current_player, required, last_penalty_initiator,
                   paid, broke_at, seen>>

\* The payment is complete: the initiator takes the pile, the phase returns None.
Collect ==
    /\ pc = "penalty"
    /\ ~(paid < required)
    /\ paid = required
    /\ log' = Append(log, EvCardsCollected(last_penalty_initiator, central_pile))
    /\ decks' = Collected(last_penalty_initiator)
    /\ central_pile' = Drained
    /\ pc' = "check"
    /\ UNCHANGED <<starting_deck, initial_decks, current_player, turn_count,
                   winner, pp_current_player, required, last_penalty_initiator,
                   paid, broke_at, seen>>

-----------------------------------------------------------------------------
(* main: the end-of-turn check *)

\* A faulty variant: the check names the player whose deck is empty.
CheckWinner_Swapped == IF decks["One"] = <<>> THEN "One" ELSE "Two"

\* A faulty variant: the check looks at Player Two's deck first.
CheckWinner_TwoFirst == IF decks["Two"] = <<>> THEN "One" ELSE "Two"

\* The winner the check names when it ends the game.
CheckWinner == IF decks["One"] = <<>> THEN "Two" ELSE "One"

\* A faulty variant: the game goes on until both decks are empty.
GameOver_BothEmpty == decks["One"] = <<>> /\ decks["Two"] = <<>>

\* The condition of the check: a deck is empty.
GameOver == decks["One"] = <<>> \/ decks["Two"] = <<>>

\* The check at the end of a pass of main's loop.
EndCheck ==
    /\ pc = "check"
    /\ IF GameOver
       THEN /\ winner' = Some(CheckWinner)
            /\ pc' = "done"
            /\ broke_at' = "check"
       ELSE /\ winner' = winner
            /\ pc' = "turn"
            /\ broke_at' = broke_at
    /\ UNCHANGED <<starting_deck, initial_decks, decks, central_pile,
                   current_player, turn_count, pp_current_player, required,
                   last_penalty_initiator, paid, log, seen>>

-----------------------------------------------------------------------------
Next ==
    \/ TurnEmpty
    \/ TurnPlay
    \/ PenaltyDepleted
    \/ PenaltyPlay
    \/ Collect
    \/ EndCheck

Spec == Init /\ [][Next]_vars

-----------------------------------------------------------------------------
(* Short games with the whole deck *)

\* deck.shuffle: every order of every n cards of create_deck
FullDeals(n) == {s \in [1..n -> Range(create_deck)] : Injective(s)}

\* main before the loop, for a deal of at most MaxFullCards of the 52 cards.
FullDeckInit ==
    \E n \in 0..MaxFullCards : \E deck \in FullDeals(n) :
        /\ starting_deck = deck
        /\ decks = SplitDeck(deck)
        /\ initial_decks = SplitDeck(deck)
        /\ turn_count = 0
        /\ current_player = "One"
        /\ central_pile = <<>>
        /\ winner = None
        /\ pc = "turn"
        /\ pp_current_player = "One"
        /\ required = 0
        /\ last_penalty_initiator = "One"
        /\ paid = 0
        /\ log = <<EvGameStart>>
        /\ broke_at = "none"
        /\ seen = {}

FullDeckSpec == FullDeckInit /\ [][Next]_vars

-----------------------------------------------------------------------------
(* The loop of main as a function of the position *)

\* The positions of at most MaxPositionCards cards: any cards in Player One's
\* deck, Player Two's deck and the pile, either player on turn.  A game started
\* by main reaches only some of them; the body of the loop is defined on all.
PositionInit ==
    \E n \in 0..MaxPositionCards : \E cards \in Deals(n) :
    \E i \in 0..n : \E j \in i..n : \E p \in Player :
        /\ starting_deck = cards
        /\ decks = [q \in Player |-> IF q = "One" THEN SubSeq(cards, 1, i)
                                     ELSE SubSeq(cards, i + 1, j)]
        /\ initial_decks = decks
        /\ central_pile = SubSeq(cards, j + 1, n)
        /\ current_player = p
        /\ turn_count = 0
        /\ winner = None
        /\ pc = "turn"
        /\ pp_current_player = "One"
        /\ required = 0
        /\ last_penalty_initiator = "One"
        /\ paid = 0
        /\ log = <<EvGameStart>>
        /\ broke_at = "none"
        /\ seen = {}

PositionSpec == PositionInit /\ [][Next]_vars

-----------------------------------------------------------------------------
(* Reading the state and the log *)

Last(s) == s[Len(s)]

\* How often card c occurs in sequence s.
CountIn(s, c) == Cardinality({i \in 1..Len(s) : s[i] = c})

\* Every card held anywhere: the two decks and the pile.
AllHeld == decks["One"] \o decks["Two"] \o central_pile

IsPenaltyCard(card) == penalty_value(card.rank) # None

RanksOf(cards) == [i \in 1..Len(cards) |-> cards[i].rank]

IsPlayed(e) == e[1] = "card_played"
IsPenaltyStart(e) == e[1] = "penalty_start"
IsCollected(e) == e[1] = "cards_collected"

\* A state at the head of the payment loop with the payment complete.
PaymentComplete == pc = "penalty" /\ paid = required

\* A state at the head of the payment loop where the payer owes a card and has none.
PayerDepleted == pc = "penalty" /\ paid < required /\ decks[pp_current_player] = <<>>

\* A state at the head of the payment loop where the payer is about to play a penalty card.
AboutToEscalate ==
    /\ pc = "penalty"
    /\ paid < required
    /\ decks[pp_current_player] # <<>>
    /\ IsPenaltyCard(Head(decks[pp_current_player]))

\* The index of the last card_played event of a penalty card before index i of the
\* log, 0 if there is none.
LastPenaltyPlayBefore(i) ==
    LET js == {j \in 1..(i - 1) : IsPlayed(log[j]) /\ IsPenaltyCard(log[j][3])}
    IN  IF js = {} THEN 0 ELSE CHOOSE j \in js : \A k \in js : k <= j

\* Event i of the log was emitted inside a penalty phase: a penalty_start precedes
\* it with no collection in between.
InPhaseAt(i) ==
    \E j \in 1..(i - 1) :
        /\ IsPenaltyStart(log[j])
        /\ \A k \in (j + 1)..(i - 1) : ~IsCollected(log[k])

\* The card_played events of main's loop (the ordinary plays).
OrdinaryPlays == {i \in 1..Len(log) : IsPlayed(log[i]) /\ ~InPhaseAt(i)}

\* The index of the triggering play of the phase that event i of the log ends or
\* lies in: the last ordinary play of a penalty card before i, 0 if there is none.
TriggerBefore(i) ==
    LET js == {j \in OrdinaryPlays : j < i /\ IsPenaltyCard(log[j][3])}
    IN  IF js = {} THEN 0 ELSE CHOOSE j \in js : \A k \in js : k <= j

\* The index of the last collection before index i of the log, 0 if there is none.
LastCollectionBefore(i) ==
    LET js == {j \in 1..(i - 1) : IsCollected(log[j])}
    IN  IF js = {} THEN 0 ELSE CHOOSE j \in js : \A k \in js : k <= j

\* The cards of the card_played events of the log with index in lo..hi, in order.
RECURSIVE CardsPlayed(_, _)
CardsPlayed(lo, hi) ==
    IF lo > hi THEN <<>>
    ELSE IF IsPlayed(log[hi]) THEN Append(CardsPlayed(lo, hi - 1), log[hi][3])
    ELSE CardsPlayed(lo, hi - 1)

\* A state at the top of main's loop where the current player is about to play a
\* card without penalty value.
AboutToPlayOrdinary ==
    /\ pc = "turn"
    /\ decks[current_player] # <<>>
    /\ ~IsPenaltyCard(Head(decks[current_player]))

-----------------------------------------------------------------------------
(* C1 *)

\* C1: in every reachable state the cards held in the two decks and the pile are,
\* as a multiset, exactly the cards of the initial deal: no card is lost or
\* duplicated, and the total count is the count dealt.
C1_Conservation ==
    /\ Len(AllHeld) = Len(starting_deck)
    /\ \A c \in Range(AllHeld) \cup Range(starting_deck) :
           CountIn(AllHeld, c) = CountIn(starting_deck, c)
    /\ \A c \in Range(AllHeld) : CountIn(AllHeld, c) = 1

\* A collection has moved a card dealt to Player Two into Player One's deck, and
\* cards have been played onto the pile since.
C1_Witness ==
    /\ central_pile # <<>>
    /\ \E c \in Range(initial_decks["Two"]) : c \in Range(decks["One"])
    /\ \E i \in 1..Len(log) : IsCollected(log[i])

-----------------------------------------------------------------------------
(* C2 *)

\* C2: when the payer has completed a run of `required` non-penalty cards (the
\* last `required` cards of the pile, right after a penalty card of that
\* magnitude), the next step appends the whole pile, in play order, to the back of
\* the initiator's deck, leaves the payer's deck as it is, empties the pile and
\* returns no winner to main (which goes on to its end-of-turn check).
C2_Collection ==
    /\ [](PaymentComplete =>
            /\ Len(central_pile) > required
            /\ \A i \in (Len(central_pile) - required + 1)..Len(central_pile) :
                   ~IsPenaltyCard(central_pile[i])
            /\ penalty_value(central_pile[Len(central_pile) - required].rank)
                   = Some(required)
            /\ pp_current_player = other(last_penalty_initiator))
    /\ [][PaymentComplete =>
            /\ decks'[last_penalty_initiator]
                   = decks[last_penalty_initiator] \o central_pile
            /\ decks'[other(last_penalty_initiator)]
                   = decks[other(last_penalty_initiator)]
            /\ central_pile' = <<>>
            /\ winner' = None
            /\ pc' = "check"]_vars

\* A collection has just happened onto a deck that already held cards.
C2_Witness ==
    /\ pc = "check"
    /\ IsCollected(Last(log))
    /\ central_pile = <<>>
    /\ Len(decks[Last(log)[2]]) > Len(Last(log)[3])
    /\ decks[other(Last(log)[2])] # <<>>

-----------------------------------------------------------------------------
(* C3 *)

\* C3: a penalty card of magnitude m played during payment makes its player the
\* initiator and the other player the payer, sets required to m and the count
\* paid to 0, whatever had been paid; and every collection goes to the player who
\* played the most recent penalty card.
C3_Escalation ==
    /\ [][AboutToEscalate =>
            /\ last_penalty_initiator' = pp_current_player
            /\ pp_current_player' = other(pp_current_player)
            /\ Some(required') = penalty_value(Head(decks[pp_current_player]).rank)
            /\ paid' = 0
            /\ pc' = "penalty"]_vars
    /\ [](\A i \in 1..Len(log) :
            IsCollected(log[i]) =>
                /\ LastPenaltyPlayBefore(i) # 0
                /\ log[i][2] = log[LastPenaltyPlayBefore(i)][2])

\* One plays a Jack, Two answers with the Queen, One pays one card and then plays
\* the other Jack, Two pays one card, and One collects the five cards.
C3_Witness ==
    /\ pc = "check"
    /\ IsCollected(Last(log))
    /\ Last(log)[2] = "One"
    /\ Len(Last(log)[3]) = 5
    /\ LET r == RanksOf(Last(log)[3])
       IN  /\ r[1] = "Jack" /\ r[2] = "Queen" /\ r[4] = "Jack"
           /\ r[3] \in {"Two", "Three"} /\ r[5] \in {"Two", "Three"}

-----------------------------------------------------------------------------
(* C4 *)

\* C4: when the payer owes a card and has an empty deck, the next step ends the
\* game with the other player as winner; nothing is collected: both decks and the
\* pile stay as they are.
C4_Depleted ==
    [][PayerDepleted =>
            /\ winner' = Some(other(pp_current_player))
            /\ pc' = "done"
            /\ decks' = decks
            /\ central_pile' = central_pile]_vars

\* The game has ended inside a penalty phase after the payer paid part of what
\* was required with their last cards.
C4_Witness ==
    /\ pc = "done"
    /\ broke_at = "penalty"
    /\ 0 < paid /\ paid < required
    /\ decks[pp_current_player] = <<>>
    /\ winner = Some(other(pp_current_player))
    /\ Len(central_pile) >= 2

-----------------------------------------------------------------------------
(* C5 *)

-----------------------------------------------------------------------------
(* C6 *)

\* C6: every ordinary play of a card without penalty value is followed by the
\* end-of-turn check (as is every collection, C2); at the check, if a deck is empty
\* the game ends with the winner's deck non-empty and the other deck empty, and
\* if no deck is empty the game goes on with no winner.
C6_EndCheck ==
    /\ [][AboutToPlayOrdinary => pc' = "check"]_vars
    /\ [][pc = "check" =>
            /\ decks' = decks
            /\ IF decks["One"] = <<>> \/ decks["Two"] = <<>>
               THEN /\ pc' = "done"
                    /\ \E w \in Player :
                          /\ winner' = Some(w)
                          /\ decks[w] # <<>>
                          /\ decks[other(w)] = <<>>
               ELSE /\ pc' = "turn"
                    /\ winner' = None]_vars

\* The check has ended the game for Player One right after a collection.
C6_Witness ==
    /\ pc = "done"
    /\ broke_at = "check"
    /\ IsCollected(Last(log))
    /\ winner = Some("One")
    /\ decks["Two"] = <<>>

-----------------------------------------------------------------------------
(* C7 *)

\* C7: turn_count is, in every state, the number of cards without penalty value
\* played in ordinary turns so far: 0 at the start, one more after each such play,
\* and unchanged by triggering cards and by the cards of a penalty phase.
C7_TurnCount ==
    turn_count = Cardinality({i \in OrdinaryPlays : ~IsPenaltyCard(log[i][3])})

\* A game has ended after at least two counted turns and a collection of a pile
\* of at least three cards.
C7_Witness ==
    /\ pc = "done"
    /\ turn_count >= 2
    /\ \E i \in 1..Len(log) : IsCollected(log[i]) /\ Len(log[i][3]) >= 3

-----------------------------------------------------------------------------
(* C8 *)

\* C8: an ordinary play of a card without penalty value passes the turn to the
\* other player; a penalty phase leaves the player on turn unchanged, so the card
\* played after a collection is played by the player of the triggering card.
C8_WhoPlaysNext ==
    /\ [][AboutToPlayOrdinary => current_player' = other(current_player)]_vars
    /\ [][pc = "penalty" => current_player' = current_player]_vars
    /\ [](\A i \in 1..(Len(log) - 1) :
            IsCollected(log[i]) =>
                /\ TriggerBefore(i) # 0
                /\ IsPlayed(log[i + 1])
                /\ log[i + 1][2] = log[TriggerBefore(i)][2])

\* After an escalation the player who did not play the triggering card has
\* collected the pile, and the player of the triggering card has played the next
\* card.
C8_Witness ==
    \E i \in 1..(Len(log) - 1) :
        /\ IsCollected(log[i])
        /\ TriggerBefore(i) # 0
        /\ log[i][2] # log[TriggerBefore(i)][2]
        /\ IsPlayed(log[i + 1])
        /\ log[i + 1][2] = log[TriggerBefore(i)][2]

-----------------------------------------------------------------------------
(* C9 *)

-----------------------------------------------------------------------------
(* C11 *)

\* C11: when the current player's deck is empty at the top of main's loop, the
\* next step ends the game with the other player as winner; no card is played:
\* the decks, the pile, the turn count and the log stay as they are.
C11_EmptyAtTurn ==
    [][(pc = "turn" /\ decks[current_player] = <<>>) =>
            /\ winner' = Some(other(current_player))
            /\ pc' = "done"
            /\ decks' = decks
            /\ central_pile' = central_pile
            /\ turn_count' = turn_count
            /\ log' = log]_vars

\* The game has ended at the top of the loop while the winner holds a card.
C11_Witness ==
    /\ pc = "done"
    /\ broke_at = "turn"
    /\ winner = Some("Two")
    /\ decks["One"] = <<>>
    /\ decks["Two"] # <<>>

-----------------------------------------------------------------------------
(* C14 *)

\* The state before the first pass of main's loop.
AtStart == pc = "turn" /\ seen = {}

\* C14: of a shuffled sequence of n cards Player One is dealt the first k cards in
\* order and Player Two the other n - k in order, where k is n / 2 rounded down
\* (Player One never has more cards than Player Two, and at most one less);
\* before the first turn the decks are the decks dealt, the pile is empty, the
\* turn count is 0 and Player One is on turn, so the first card played is the
\* front card dealt to Player One.
C14_InitialDeal ==
    LET n == Len(starting_deck)
        k == Len(initial_decks["One"])
    IN  /\ 2 * k <= n /\ n <= 2 * k + 1
        /\ Len(initial_decks["Two"]) = n - k
        /\ \A i \in 1..k : initial_decks["One"][i] = starting_deck[i]
        /\ \A i \in 1..(n - k) : initial_decks["Two"][i] = starting_deck[k + i]
        /\ AtStart =>
               /\ decks = initial_decks
               /\ central_pile = <<>>
               /\ turn_count = 0
               /\ current_player = "One"
        /\ Len(log) >= 2 =>
               /\ IsPlayed(log[2])
               /\ log[2][2] = "One"
               /\ log[2][3] = initial_decks["One"][1]

\* Five cards have been dealt, two of them to Player One, and nothing is played yet.
C14_Witness ==
    /\ AtStart
    /\ Len(starting_deck) = 5
    /\ Len(decks["One"]) = 2
    /\ Len(decks["Two"]) = 3

-----------------------------------------------------------------------------
(* C15 *)

\* C15: at every point inside a penalty phase the payer is the other player of
\* the initiator, and the initiator is the player who played the most recent
\* penalty card; the collection that ends the phase goes to that initiator.
C15_Roles ==
    /\ [](pc = "penalty" =>
            /\ pp_current_player = other(last_penalty_initiator)
            /\ LastPenaltyPlayBefore(Len(log) + 1) # 0
            /\ last_penalty_initiator = log[LastPenaltyPlayBefore(Len(log) + 1)][2])
    /\ [][PaymentComplete =>
            /\ IsCollected(Last(log'))
            /\ Last(log')[2] = last_penalty_initiator
            /\ Len(decks'[last_penalty_initiator])
                   > Len(decks[last_penalty_initiator])]_vars

\* Inside a penalty phase the roles have flipped: the player who played the
\* triggering card is paying and has paid one card.
C15_Witness ==
    /\ pc = "penalty"
    /\ pp_current_player = current_player
    /\ last_penalty_initiator = other(current_player)
    /\ paid = 1
    /\ required > 1

-----------------------------------------------------------------------------
(* C16 *)

\* The player about to play a card, in a state where a card is about to be played.
AboutToPlay ==
    \/ pc = "turn" /\ decks[current_player] # <<>>
    \/ pc = "penalty" /\ paid < required /\ decks[pp_current_player] # <<>>
Actor == IF pc = "turn" THEN current_player ELSE pp_current_player

\* s is t with one element added at the end.
ExtendsByOne(s, t) == Len(s) = Len(t) + 1 /\ SubSeq(s, 1, Len(t)) = t

\* C16: every play takes exactly the front card of the acting player's deck and
\* puts that card at the end of the pile; the other deck and the cards already
\* on the pile stay as they are.  The pile changes only by one card added at its
\* end or, at a collection, by being emptied; a deck gains cards only at a
\* collection.
C16_PlayEffect ==
    /\ [][AboutToPlay =>
            /\ decks'[Actor] = Tail(decks[Actor])
            /\ decks'[other(Actor)] = decks[other(Actor)]
            /\ central_pile' = Append(central_pile, Head(decks[Actor]))]_vars
    /\ [][\/ central_pile' = central_pile
          \/ ExtendsByOne(central_pile', central_pile) /\ AboutToPlay
          \/ central_pile' = <<>> /\ PaymentComplete]_vars
    /\ [][\A p \in Player :
              Len(decks'[p]) > Len(decks[p]) => PaymentComplete]_vars

\* A payment card has just been played onto a pile of at least two cards by a
\* payer who still holds cards, while the other player holds cards too.
C16_Witness ==
    /\ pc = "penalty"
    /\ paid >= 1
    /\ Len(central_pile) >= 3
    /\ decks["One"] # <<>>
    /\ decks["Two"] # <<>>

-----------------------------------------------------------------------------
(* C17 *)

\* Both players were dealt at least one card.
BothDealt == initial_decks["One"] # <<>> /\ initial_decks["Two"] # <<>>

BothEmpty == decks["One"] = <<>> /\ decks["Two"] = <<>>

\* C17: when both players were dealt at least one card, the two decks are never
\* both empty at the end-of-turn check, neither after a play without penalty nor
\* after a collection; no game is ended by that check with both decks empty.
C17_NeverBothEmptyAtCheck ==
    BothDealt =>
        /\ pc = "check" => ~BothEmpty
        /\ (pc = "done" /\ broke_at = "check") => ~BothEmpty

\* The check is reached after a collection with Player Two's deck empty, Player
\* One holding every card.
C17_Witness ==
    /\ BothDealt
    /\ pc = "check"
    /\ IsCollected(Last(log))
    /\ decks["Two"] = <<>>
    /\ decks["One"] # <<>>

-----------------------------------------------------------------------------
(* C18 *)

\* C18: when both players were dealt at least one card, both decks are non-empty
\* at the top of every pass of main's loop, so the empty-deck check there never
\* ends the game and every ordinary play has a card to take; the game ends only
\* at the end-of-turn check or by the payer's deck running out in a penalty phase.
C18_TurnsStartNonEmpty ==
    BothDealt =>
        /\ pc = "turn" => decks["One"] # <<>> /\ decks["Two"] # <<>>
        /\ broke_at # "turn"
        /\ pc = "done" => broke_at \in {"check", "penalty"}

\* A later pass of the loop starts with the current player holding a single card.
C18_Witness ==
    /\ BothDealt
    /\ pc = "turn"
    /\ turn_count >= 2
    /\ Len(decks[current_player]) = 1
    /\ \E i \in 1..Len(log) : IsCollected(log[i])

-----------------------------------------------------------------------------
(* C19 *)

\* C19: whenever the game has ended, at the top of the loop, in a penalty phase
\* or at the end-of-turn check, a winner is declared and the deck of the other
\* player is empty.
C19_LoserHasNoCards ==
    pc = "done" =>
        /\ winner \in {Some(p) : p \in Player}
        /\ decks[other(winner[1])] = <<>>

\* The game has ended inside a penalty phase: the payer's deck ran out with cards
\* on the pile, and the winner holds cards.
C19_Witness ==
    /\ pc = "done"
    /\ broke_at = "penalty"
    /\ winner = Some("One")
    /\ decks["Two"] = <<>>
    /\ decks["One"] # <<>>
    /\ Len(central_pile) >= 3

-----------------------------------------------------------------------------
(* C20 *)

DeckCards_Held == Len(decks["One"]) + Len(decks["Two"])

\* The number of payment cards played so far in the current penalty phase.
PhasePlays ==
    LET t == TriggerBefore(Len(log) + 1)
    IN  Len(CardsPlayed(t + 1, Len(log)))

\* The number of cards in the two decks when the current penalty phase was
\* entered: every card dealt but those on the pile, the triggering card included.
PhaseEntryCards ==
    LET t == TriggerBefore(Len(log) + 1)
    IN  Len(starting_deck) - Len(CardsPlayed(LastCollectionBefore(t) + 1, t))

\* C20: every penalty phase ends.  A step of the phase is a play, a collection or
\* the payer's deck running out; no deck gains a card before the collection, and
\* every play takes one card out of the decks, so the plays of a phase never
\* outnumber the cards the decks held at entry, however the roles flip, and a
\* phase that cannot play ends in a collection or with the payer depleted.
C20_PhaseTerminates ==
    /\ [](pc = "penalty" =>
            /\ paid <= required
            /\ PhasePlays + DeckCards_Held = PhaseEntryCards
            /\ PhasePlays <= PhaseEntryCards)
    /\ [][pc = "penalty" =>
            \/ /\ pc' = "penalty"
               /\ DeckCards_Held' = DeckCards_Held - 1
               /\ \A p \in Player : Len(decks'[p]) <= Len(decks[p])
            \/ pc' = "check" /\ PaymentComplete
            \/ pc' = "done" /\ PayerDepleted]_vars

\* A phase with at least two escalations has used up every card of both decks.
C20_Witness ==
    /\ pc = "penalty"
    /\ DeckCards_Held = 0
    /\ paid < required
    /\ PhasePlays >= 3
    /\ Cardinality({i \in TriggerBefore(Len(log) + 1)..Len(log) :
                        IsPenaltyStart(log[i])}) >= 3

-----------------------------------------------------------------------------
(* C12 *)

\* C12: if both decks are empty at the end-of-turn check, the check ends the
\* game and declares Player Two the winner.  (Stated of the loop of main run
\* from every position: PositionSpec.)
C12_TieBreak ==
    /\ [][(pc = "check" /\ BothEmpty) =>
            /\ winner' = Some("Two")
            /\ pc' = "done"
            /\ broke_at' = "check"]_vars
    /\ []((pc = "done" /\ broke_at = "check" /\ BothEmpty) => winner = Some("Two"))

\* The check after a play without penalty found both decks empty and named
\* Player Two.
C12_Witness ==
    /\ pc = "done"
    /\ broke_at = "check"
    /\ BothEmpty
    /\ IsPlayed(Last(log))
    /\ winner = Some("Two")

-----------------------------------------------------------------------------
(* C13 *)

\* The penalty rule as a table on ranks; 0 stands for no penalty.
PenaltyTable(rank) ==
    IF rank = "Jack" THEN 1
    ELSE IF rank = "Queen" THEN 2
    ELSE IF rank = "King" THEN 3
    ELSE IF rank = "Ace" THEN 4
    ELSE 0

\* C13: the penalty rule is defined for each of the 13 ranks and looks at the
\* rank only: Jack gives 1, Queen 2, King 3, Ace 4, Two..Ten none, whatever the
\* suit.  Every card played, in a turn or as a payment, starts a penalty of its
\* rank's magnitude exactly when its rank is one of those four.  (Stated of
\* games with all 52 cards: FullDeckSpec.)
C13_PenaltyMapping ==
    /\ Cardinality(Rank) = 13
    /\ \A c \in Range(create_deck) :
           penalty_value(c.rank) =
               IF PenaltyTable(c.rank) = 0 THEN None ELSE Some(PenaltyTable(c.rank))
    /\ \A i \in 1..Len(log) :
           IsPlayed(log[i]) =>
               IF log[i][3].rank \in {"Jack", "Queen", "King", "Ace"}
               THEN /\ i < Len(log)
                    /\ log[i + 1] = EvPenaltyStart(PenaltyTable(log[i][3].rank))
               ELSE i < Len(log) => ~IsPenaltyStart(log[i + 1])
    /\ pc = "penalty" =>
           required = PenaltyTable(log[LastPenaltyPlayBefore(Len(log) + 1)][3].rank)

\* The Ace of Diamonds was played and started a penalty of 4, and the Ten of
\* Clubs was paid without starting one.
C13_Witness ==
    /\ Len(log) = 4
    /\ log[2] = EvCardPlayed("One", [rank |-> "Ace", suit |-> "Diamond"])
    /\ log[3] = EvPenaltyStart(4)
    /\ log[4] = EvCardPlayed("Two", [rank |-> "Ten", suit |-> "Club"])
    /\ paid = 1
    /\ required = 4

====
